---- MODULE Spec2Model ----
(***************************************************************************)
(* Model of the Poly template parser (src/src/compiler/parser.rs).         *)
(*                                                                         *)
(* A Parser owns a cursor over a vector of lexemes, an output vector of    *)
(* AstResults and a registry of components.  Parser::new drives            *)
(* parse_token until the Eof sentinel; get_children! builds a fresh        *)
(* Parser for every non-empty body, which is modelled as a stack of        *)
(* parsers: the innermost running parser is the last frame.                *)
(* The run modelled is component_pass(lexemes) followed by                 *)
(* Parser::new(lexemes) over the same lexemes.                             *)
(***************************************************************************)
EXTENDS Integers, Sequences, FiniteSets, TLC

VARIABLES lexemes,    \* the lexer's output handed to both entry points
          stack,      \* running parsers, outermost first
          harvested,  \* the registry returned by component_pass
          dispatch,   \* the last driver step: cursor before/after, result, body scan
          done        \* Parser::new has returned

vars == <<lexemes, stack, harvested, dispatch, done>>

-----------------------------------------------------------------------------
(* Lexemes: Word(index, text) and Symbol(index, operator).  Text is a      *)
(* sequence of characters.                                                 *)

Word(index, text) == [lex |-> "Word", index |-> index, op |-> "", text |-> text]

Symbol(index, operator) == [lex |-> "Symbol", index |-> index, op |-> operator, text |-> <<>>]

Operators ==
    {"At", "Dot", "Ampersand", "Dollar", "ForwardSlash", "BackSlash", "OpenParam",
     "CloseParam", "OpenBrace", "CloseBrace", "Comma", "Equals", "Quote", "Pound"}

\* Operator::to_string: the surface form of a symbol.
OperatorToString(operator) ==
    CASE operator = "At" -> <<"@">>
      [] operator = "Dot" -> <<".">>
      [] operator = "Ampersand" -> <<"&">>
      [] operator = "Dollar" -> <<"$">>
      [] operator = "ForwardSlash" -> <<"/">>
      [] operator = "BackSlash" -> <<"\\">>
      [] operator = "OpenParam" -> <<"(">>
      [] operator = "CloseParam" -> <<")">>
      [] operator = "OpenBrace" -> <<"{">>
      [] operator = "CloseBrace" -> <<"}">>
      [] operator = "Comma" -> <<",">>
      [] operator = "Equals" -> <<"=">>
      [] operator = "Quote" -> <<"\"">>
      [] operator = "Pound" -> <<"#">>

IsWord(t) == t.lex = "Word"

IsSymbol(t, operator) == t.lex = "Symbol" /\ t.op = operator

-----------------------------------------------------------------------------
(* AstResult = Result<Token, AstError>                                     *)

Ok(tag, arg) == [ok |-> TRUE, tag |-> tag, arg |-> arg]

Err(tag, arg) == [ok |-> FALSE, tag |-> tag, arg |-> arg]

\* AstError::Eof, the sentinel that ends the driver loop.
Eof == [ok |-> FALSE, tag |-> "Eof", arg |-> 0]

Text(text) == Ok("Text", text)

-----------------------------------------------------------------------------
(* The cursor: pos is the number of lexemes already taken.                 *)

\* Parser::peek / Parser::take look at input[pos + 1]; None past the end.
HasNext(input, pos) == pos < Len(input)

Peek(input, pos) == input[pos + 1]

PeekIs(input, pos, operator) == HasNext(input, pos) /\ IsSymbol(Peek(input, pos), operator)

\* str::trim on a sequence of characters.
RECURSIVE TrimStart(_)
TrimStart(s) == IF s # <<>> /\ Head(s) = " " THEN TrimStart(Tail(s)) ELSE s

RECURSIVE TrimEnd(_)
TrimEnd(s) == IF s # <<>> /\ s[Len(s)] = " " THEN TrimEnd(SubSeq(s, 1, Len(s) - 1)) ELSE s

Trim(s) == TrimEnd(TrimStart(s))

-----------------------------------------------------------------------------
(* get_identifer!: a plain identifier from an already taken token.         *)
(* Result: ok with the text, or the error to return.                       *)

GetIdentifer(input, pos, index, unexpected) ==
    IF ~HasNext(input, pos)
    THEN [ok |-> FALSE, err |-> Err("UnexpectedEof", Symbol(index, "At")), text |-> <<>>, pos |-> pos]
    ELSE IF IsWord(Peek(input, pos))
         THEN [ok |-> TRUE, err |-> Eof, text |-> Peek(input, pos).text, pos |-> pos + 1]
         ELSE [ok |-> FALSE, err |-> Err(unexpected, Peek(input, pos)), text |-> <<>>, pos |-> pos + 1]

(* get_namespaced_identifer!: word (. word)*                               *)

RECURSIVE NamespaceLoop(_, _, _, _, _)
NamespaceLoop(input, pos, index, unexpected, new_text) ==
    IF PeekIs(input, pos, "Dot")
    THEN IF ~HasNext(input, pos + 1)
         THEN [ok |-> FALSE, err |-> Err("UnexpectedEof", Symbol(index, "Dot")),
               text |-> <<>>, pos |-> pos + 1]
         ELSE IF IsWord(Peek(input, pos + 1))
              THEN NamespaceLoop(input, pos + 2, index, unexpected,
                                 new_text \o <<".">> \o Peek(input, pos + 1).text)
              ELSE [ok |-> FALSE, err |-> Err(unexpected, Peek(input, pos + 1)),
                    text |-> <<>>, pos |-> pos + 2]
    ELSE [ok |-> TRUE, err |-> Eof, text |-> new_text, pos |-> pos]

GetNamespacedIdentifer(input, pos, index, unexpected, previous) ==
    IF ~HasNext(input, pos)
    THEN [ok |-> FALSE, err |-> Err("UnexpectedEof", Symbol(index, previous)),
          text |-> <<>>, pos |-> pos]
    ELSE IF IsWord(Peek(input, pos))
         THEN NamespaceLoop(input, pos + 1, Peek(input, pos).index, unexpected,
                            Peek(input, pos).text)
         ELSE [ok |-> FALSE, err |-> Err(unexpected, Peek(input, pos)),
               text |-> <<>>, pos |-> pos + 1]

-----------------------------------------------------------------------------
(* get_children!: the scan for the close brace of a body whose open brace  *)
(* has been taken.  The record holds the macro's locals when the loop      *)
(* ends; closed tells whether it ended by the break at depth 0.            *)

NoScan == [scanned |-> FALSE]

RECURSIVE ChildrenLoop(_, _, _, _, _, _, _)
ChildrenLoop(input, from, pos, depth, open_brace_index, close_brace_index, children) ==
    IF ~HasNext(input, pos)
    THEN [scanned |-> TRUE, from |-> from, pos |-> pos, depth |-> depth, closed |-> FALSE,
          open_brace_index |-> open_brace_index, close_brace_index |-> close_brace_index,
          children |-> children]
    ELSE LET token == Peek(input, pos) IN
         IF IsSymbol(token, "OpenBrace")
         THEN ChildrenLoop(input, from, pos + 1, depth + 1, token.index, close_brace_index,
                           IF depth + 1 # 0 THEN Append(children, token) ELSE children)
         ELSE IF IsSymbol(token, "CloseBrace")
              THEN IF depth = 0
                   THEN [scanned |-> TRUE, from |-> from, pos |-> pos + 1, depth |-> depth,
                         closed |-> TRUE, open_brace_index |-> open_brace_index,
                         close_brace_index |-> close_brace_index, children |-> children]
                   ELSE ChildrenLoop(input, from, pos + 1, depth - 1, open_brace_index,
                                     token.index, Append(children, token))
              ELSE ChildrenLoop(input, from, pos + 1, depth, open_brace_index,
                                close_brace_index, Append(children, token))

\* The scan with the body's own open brace counted in the depth.
GetChildrenScanDepthOne(input, pos) == ChildrenLoop(input, pos, pos, 1, 0, 0, <<>>)

GetChildrenScan(input, pos) == ChildrenLoop(input, pos, pos, 0, 0, 0, <<>>)

(* What a parse routine hands back to the driver: either a result, or a    *)
(* body to be parsed by Parser::new(children) before the result exists.    *)

NoNode == [owner |-> "none", value |-> Eof]

Return(res, pos) ==
    [kind |-> "return", res |-> res, pos |-> pos, insert |-> FALSE, node |-> NoNode,
     children |-> <<>>, scan |-> NoScan]

\* The tail of get_children! after the loop, for the node that owns the body.
GetChildren(input, pos, owner, node, whenEmpty) ==
    LET s == GetChildrenScan(input, pos) IN
    IF s.depth > 0
    THEN [Return(Err("UnclosedOpenBraces", s.open_brace_index), s.pos) EXCEPT !.scan = s]
    ELSE IF s.depth # 0
         THEN [Return(Err("UnclosedCloseBraces", s.close_brace_index), s.pos) EXCEPT !.scan = s]
         ELSE IF s.children # <<>>
              THEN [kind |-> "recurse", res |-> Eof, pos |-> s.pos, insert |-> FALSE,
                    node |-> [owner |-> owner, value |-> node],
                    children |-> s.children, scan |-> s]
              ELSE [whenEmpty EXCEPT !.pos = s.pos, !.scan = s]

-----------------------------------------------------------------------------
(* Nodes built by the parse routines (Component, ComponentCall, Element,   *)
(* FunctionCall and their add_* methods).                                  *)

ComponentNew(name) == [name |-> name, args |-> <<>>, children |-> <<>>]

ComponentCallNew(name) == [name |-> name, values |-> <<>>]

ComponentCallFromComponent(component) == [name |-> component.name, values |-> component.args]

ElementNew(tag) ==
    [tag |-> tag, attributes |-> <<>>, classes |-> <<>>, children |-> <<>>, resources |-> <<>>]

FunctionCallNew(name) == [name |-> name, args |-> <<>>]

\* An ordered map: a later write to a key replaces its value in place.
MapInsert(map, entry) ==
    IF \E i \in 1..Len(map) : map[i].key = entry.key
    THEN [i \in 1..Len(map) |-> IF map[i].key = entry.key THEN entry ELSE map[i]]
    ELSE Append(map, entry)

AddAttribute(element, key, value) ==
    [element EXCEPT !.attributes = MapInsert(@, [key |-> key, value |-> value])]

AddArg(func_call, arg_name, kind, identifier) ==
    [func_call EXCEPT !.args = MapInsert(@, [key |-> arg_name, kind |-> kind, value |-> identifier])]

\* HashMap::insert on the registry, a set of components with distinct names.
RegistryInsert(components, component) ==
    {c \in components : c.name # component.name} \cup {component}

-----------------------------------------------------------------------------
(* Parser::parse_component                                                 *)

\* The argument loop after `(`: "return" carries a result, "continue" goes
\* back to the outer loop (after the break before `{`, or at end of input).
\* The `)` arm without the lookahead for `{`: a body is always expected.
ComponentCloseParamNoPeek(input, pos, component) ==
    [kind |-> "continue", pos |-> pos, component |-> component, res |-> Eof]

\* The `)` arm; pos is after the `)`.  Before `{` the loop breaks, a body
\* follows; before anything else the reference is a call.
ComponentCloseParam(input, pos, component) ==
    IF PeekIs(input, pos, "OpenBrace")
    THEN [kind |-> "continue", pos |-> pos, component |-> component, res |-> Eof]
    ELSE [kind |-> "return", pos |-> pos, component |-> component,
          res |-> Ok("CompCall", ComponentCallFromComponent(component))]

RECURSIVE ComponentArgLoop(_, _, _)
ComponentArgLoop(input, pos, component) ==
    IF ~HasNext(input, pos)
    THEN [kind |-> "continue", pos |-> pos, component |-> component, res |-> Eof]
    ELSE LET token == Peek(input, pos) IN
         IF IsSymbol(token, "At")
         THEN LET id == GetIdentifer(input, pos + 1, token.index, "UnexpectedToken") IN
              IF id.ok
              THEN ComponentArgLoop(input, id.pos,
                                    [component EXCEPT !.args = Append(@, id.text)])
              ELSE [kind |-> "return", pos |-> id.pos, component |-> component, res |-> id.err]
         ELSE IF IsSymbol(token, "CloseParam")
              THEN ComponentCloseParam(input, pos + 1, component)
              ELSE IF IsSymbol(token, "Comma")
                   THEN ComponentArgLoop(input, pos + 1, component)
                   ELSE [kind |-> "return", pos |-> pos + 1, component |-> component,
                         res |-> Err("UnexpectedToken", token)]

\* After the outer loop: register the component, or unreachable!().
ComponentFinish(pos, allow_definition, component) ==
    IF allow_definition
    THEN [Return(Text(<<>>), pos) EXCEPT
             !.insert = TRUE, !.node = [owner |-> "component", value |-> component]]
    ELSE Return(Err("unreachable", 0), pos)

RECURSIVE ComponentLoop(_, _, _, _)
ComponentLoop(input, pos, allow_definition, component) ==
    IF ~HasNext(input, pos)
    THEN ComponentFinish(pos, allow_definition, component)
    ELSE LET token == Peek(input, pos) IN
         IF IsSymbol(token, "OpenParam")
         THEN LET r == ComponentArgLoop(input, pos + 1, component) IN
              IF r.kind = "return"
              THEN Return(r.res, r.pos)
              ELSE ComponentLoop(input, r.pos, allow_definition, r.component)
         ELSE IF IsSymbol(token, "OpenBrace")
              THEN IF allow_definition
                   THEN GetChildren(input, pos + 1, "component", component,
                                    ComponentFinish(pos + 1, allow_definition, component))
                   ELSE Return(Err("ExpectedCompCall", token), pos + 1)
              ELSE Return(Err("UnexpectedToken", token), pos)

ParseComponent(input, pos, allow_definition, index) ==
    LET id == GetNamespacedIdentifer(input, pos, index, "InvalidComponent", "Ampersand") IN
    IF ~id.ok
    THEN Return(id.err, id.pos)
    ELSE ComponentLoop(input, id.pos, allow_definition, ComponentNew(id.text))

-----------------------------------------------------------------------------
(* Parser::read_leading_quotes                                             *)

RECURSIVE ReadLeadingQuotesLoop(_, _, _)
ReadLeadingQuotesLoop(input, pos, value) ==
    IF ~HasNext(input, pos)
    THEN [text |-> value, pos |-> pos]
    ELSE LET token == Peek(input, pos) IN
         IF IsSymbol(token, "Quote")
         THEN [text |-> value, pos |-> pos + 1]
         ELSE IF IsWord(token)
              THEN ReadLeadingQuotesLoop(input, pos + 1, value \o token.text)
              ELSE ReadLeadingQuotesLoop(input, pos + 1, value \o OperatorToString(token.op))

ReadLeadingQuotes(input, pos) == ReadLeadingQuotesLoop(input, pos, <<>>)

-----------------------------------------------------------------------------
(* Parser::parse_element                                                   *)

\* The argument list of a component call attached to an element.
RECURSIVE ResourceArgLoop(_, _, _)
ResourceArgLoop(input, pos, component_call) ==
    IF ~HasNext(input, pos)
    THEN [kind |-> "continue", pos |-> pos, call |-> component_call, res |-> Eof]
    ELSE LET symbol == Peek(input, pos) IN
         IF IsSymbol(symbol, "CloseParam")
         THEN [kind |-> "continue", pos |-> pos + 1, call |-> component_call, res |-> Eof]
         ELSE IF IsSymbol(symbol, "At")
              THEN LET id == GetIdentifer(input, pos + 1, symbol.index, "ExpectedVariable") IN
                   IF id.ok
                   THEN ResourceArgLoop(input, id.pos,
                                        [component_call EXCEPT !.values = Append(@, id.text)])
                   ELSE [kind |-> "return", pos |-> id.pos, call |-> component_call,
                         res |-> id.err]
              ELSE IF IsSymbol(symbol, "Comma")
                   THEN ResourceArgLoop(input, pos + 1, component_call)
                   ELSE [kind |-> "return", pos |-> pos + 1, call |-> component_call,
                         res |-> Err("UnexpectedToken", symbol)]

\* The value of the attribute whose key has been taken; pos is after the key.
AttributeValue(input, pos, index, key) ==
    IF ~HasNext(input, pos)
    THEN [ok |-> FALSE, err |-> Err("UnexpectedEof", Word(index, key)), text |-> <<>>, pos |-> pos]
    ELSE LET next == Peek(input, pos) IN
         IF IsSymbol(next, "Equals")
         THEN IF ~HasNext(input, pos + 1)
              THEN [ok |-> FALSE, err |-> Err("UnexpectedEof", Symbol(next.index, "Equals")),
                    text |-> <<>>, pos |-> pos + 1]
              ELSE LET v == Peek(input, pos + 1) IN
                   IF IsWord(v)
                   THEN [ok |-> TRUE, err |-> Eof, text |-> v.text, pos |-> pos + 2]
                   ELSE IF IsSymbol(v, "Quote")
                        THEN LET q == ReadLeadingQuotes(input, pos + 2) IN
                             [ok |-> TRUE, err |-> Eof, text |-> q.text, pos |-> q.pos]
                        ELSE [ok |-> FALSE, err |-> Err("InvalidTokenInAttributes", v),
                              text |-> <<>>, pos |-> pos + 2]
         ELSE IF IsWord(next) \/ IsSymbol(next, "CloseParam") \/ IsSymbol(next, "Quote")
              THEN [ok |-> TRUE, err |-> Eof, text |-> <<>>, pos |-> pos]
              ELSE [ok |-> FALSE, err |-> Err("InvalidTokenInAttributes", next),
                    text |-> <<>>, pos |-> pos]

\* The attribute list after `(` at position index.
RECURSIVE AttributeLoop(_, _, _, _)
AttributeLoop(input, pos, index, element) ==
    IF ~HasNext(input, pos)
    THEN [kind |-> "continue", pos |-> pos, element |-> element, res |-> Eof]
    ELSE LET token == Peek(input, pos) IN
         IF IsSymbol(token, "CloseParam")
         THEN IF PeekIs(input, pos + 1, "OpenBrace")
              THEN [kind |-> "continue", pos |-> pos + 1, element |-> element, res |-> Eof]
              ELSE [kind |-> "return", pos |-> pos + 1, element |-> element,
                    res |-> Ok("Html", element)]
         ELSE IF IsSymbol(token, "Quote")
              THEN LET q == ReadLeadingQuotes(input, pos + 1) IN
                   AttributeLoop(input, q.pos, index,
                                 AddAttribute(element, <<"\"">> \o q.text \o <<"\"">>, <<>>))
              ELSE IF IsWord(token)
                   THEN LET v == AttributeValue(input, pos + 1, index, token.text) IN
                        IF v.ok
                        THEN AttributeLoop(input, v.pos, index,
                                           AddAttribute(element, token.text, v.text))
                        ELSE [kind |-> "return", pos |-> v.pos, element |-> element,
                              res |-> v.err]
                   ELSE [kind |-> "return", pos |-> pos + 1, element |-> element,
                         res |-> Err("InvalidTokenInAttributes", token)]

RECURSIVE ElementLoop(_, _, _)

\* The `.` arm of the element loop; pos is after the `.` at position index.
ElementClass(input, pos, index, element) ==
    IF ~HasNext(input, pos)
    THEN Return(Err("UnexpectedEof", Symbol(index, "Dot")), pos)
    ELSE IF IsWord(Peek(input, pos))
         THEN ElementLoop(input, pos + 1,
                          [element EXCEPT !.classes = Append(@, Peek(input, pos).text)])
         ELSE Return(Err("NoNameAttachedToClass", Peek(input, pos)), pos + 1)

\* The `#` arm storing the name as a class.
ElementIdAsClass(input, pos, index, element) ==
    IF ~HasNext(input, pos)
    THEN Return(Err("UnexpectedEof", Symbol(index, "Pound")), pos)
    ELSE IF IsWord(Peek(input, pos))
         THEN ElementLoop(input, pos + 1,
                          [element EXCEPT !.classes = Append(@, Peek(input, pos).text)])
         ELSE Return(Err("NoNameAttachedToId", Peek(input, pos)), pos + 1)

\* The `#` arm of the element loop; pos is after the `#` at position index.
ElementId(input, pos, index, element) ==
    IF ~HasNext(input, pos)
    THEN Return(Err("UnexpectedEof", Symbol(index, "Pound")), pos)
    ELSE IF IsWord(Peek(input, pos))
         THEN ElementLoop(input, pos + 1,
                          AddAttribute(element, <<"i", "d">>, Peek(input, pos).text))
         ELSE Return(Err("NoNameAttachedToId", Peek(input, pos)), pos + 1)

ElementLoop(input, pos, element) ==
    IF ~HasNext(input, pos)
    THEN Return(Ok("Html", element), pos)
    ELSE LET token == Peek(input, pos) IN
         CASE IsSymbol(token, "Ampersand") ->
                LET id == GetNamespacedIdentifer(input, pos + 1, token.index,
                                                 "ExpectedCompCall", "Ampersand") IN
                IF ~id.ok
                THEN Return(id.err, id.pos)
                ELSE IF PeekIs(input, id.pos, "OpenParam")
                     THEN LET r == ResourceArgLoop(input, id.pos + 1, ComponentCallNew(id.text)) IN
                          IF r.kind = "return"
                          THEN Return(r.res, r.pos)
                          ELSE ElementLoop(input, r.pos,
                                           [element EXCEPT !.resources = Append(@, r.call)])
                     ELSE ElementLoop(input, id.pos,
                                      [element EXCEPT
                                          !.resources = Append(@, ComponentCallNew(id.text))])
           [] IsSymbol(token, "OpenParam") ->
                LET r == AttributeLoop(input, pos + 1, token.index, element) IN
                IF r.kind = "return"
                THEN Return(r.res, r.pos)
                ELSE ElementLoop(input, r.pos, r.element)
           [] IsSymbol(token, "Dot") -> ElementClass(input, pos + 1, token.index, element)
           [] IsSymbol(token, "Pound") -> ElementId(input, pos + 1, token.index, element)
           [] IsSymbol(token, "OpenBrace") ->
                GetChildren(input, pos + 1, "element", element,
                            Return(Ok("Html", element), pos + 1))
           [] OTHER -> Return(Err("UnexpectedToken", token), pos + 1)

ParseElement(input, pos, index) ==
    LET tag == GetIdentifer(input, pos, index, "InvalidElement") IN
    IF ~tag.ok
    THEN Return(tag.err, tag.pos)
    ELSE ElementLoop(input, tag.pos, ElementNew(Trim(tag.text)))

-----------------------------------------------------------------------------
(* Parser::parse_function                                                  *)

\* One `arg = @identifier` or `arg = &identifier` entry; pos is after the
\* argument's name, the Word(index, arg_name).
FunctionEntry(input, pos, index, arg_name, func_call) ==
    IF ~HasNext(input, pos)
    THEN [ok |-> FALSE, err |-> Err("UnexpectedEof", Word(index, arg_name)),
          call |-> func_call, pos |-> pos]
    ELSE LET eq == Peek(input, pos) IN
         IF ~IsSymbol(eq, "Equals")
         THEN [ok |-> FALSE, err |-> Err("InvalidFunctionCall", eq), call |-> func_call,
               pos |-> pos + 1]
         ELSE IF ~HasNext(input, pos + 1)
              THEN [ok |-> FALSE, err |-> Err("UnexpectedEof", Symbol(eq.index, "Equals")),
                    call |-> func_call, pos |-> pos + 1]
              ELSE LET sigil == Peek(input, pos + 1) IN
                   IF IsSymbol(sigil, "At") \/ IsSymbol(sigil, "Ampersand")
                   THEN IF ~HasNext(input, pos + 2)
                        THEN [ok |-> FALSE,
                              err |-> Err("UnexpectedEof", Symbol(sigil.index, sigil.op)),
                              call |-> func_call, pos |-> pos + 2]
                        ELSE LET value == Peek(input, pos + 2) IN
                             IF IsWord(value)
                             THEN [ok |-> TRUE, err |-> Eof, pos |-> pos + 3,
                                   call |-> AddArg(func_call, arg_name,
                                                   IF sigil.op = "At" THEN "variable"
                                                                      ELSE "component",
                                                   value.text)]
                             ELSE [ok |-> FALSE,
                                   err |-> Err(IF sigil.op = "At" THEN "ExpectedVariable"
                                                                  ELSE "ExpectedCompCall",
                                               value),
                                   call |-> func_call, pos |-> pos + 3]
                   ELSE [ok |-> FALSE, err |-> Err("UnexpectedToken", sigil),
                         call |-> func_call, pos |-> pos + 2]

RECURSIVE FunctionLoop(_, _, _)
FunctionLoop(input, pos, func_call) ==
    IF ~HasNext(input, pos)
    THEN Return(Ok("Function", func_call), pos)
    ELSE LET token == Peek(input, pos) IN
         IF IsWord(token)
         THEN LET e == FunctionEntry(input, pos + 1, token.index, token.text, func_call) IN
              IF e.ok THEN FunctionLoop(input, e.pos, e.call) ELSE Return(e.err, e.pos)
         ELSE IF IsSymbol(token, "CloseParam")
              THEN Return(Ok("Function", func_call), pos + 1)
              ELSE IF IsSymbol(token, "Comma")
                   THEN FunctionLoop(input, pos + 1, func_call)
                   ELSE Return(Err("UnexpectedToken", token), pos + 1)

ParseFunction(input, pos, index) ==
    LET id == GetNamespacedIdentifer(input, pos, index, "InvalidFunctionCall", "Dollar") IN
    IF ~id.ok
    THEN Return(id.err, id.pos)
    ELSE IF ~HasNext(input, id.pos)
         THEN Return(Err("UnexpectedEof", Symbol(index, "Dollar")), id.pos)
         ELSE IF IsSymbol(Peek(input, id.pos), "OpenParam")
              THEN FunctionLoop(input, id.pos + 1, FunctionCallNew(id.text))
              ELSE Return(Err("InvalidFunctionCall", Peek(input, id.pos)), id.pos + 1)

-----------------------------------------------------------------------------
(* Parser::parse_text, Parser::parse_escaped, the `@` arm of parse_token   *)

RECURSIVE ParseText(_, _, _)
ParseText(input, pos, text) ==
    IF HasNext(input, pos) /\ IsWord(Peek(input, pos))
    THEN ParseText(input, pos + 1, text \o Peek(input, pos).text)
    ELSE Return(Text(text), pos)

ParseEscaped(input, pos) ==
    IF ~HasNext(input, pos)
    THEN Return(Eof, pos)
    ELSE IF IsWord(Peek(input, pos))
         THEN Return(Text(<<>>), pos)
         ELSE Return(Text(OperatorToString(Peek(input, pos).op)), pos + 1)

\* The `@` arm leaving the cursor where it was when the identifier fails.
ParseVariableRewind(input, pos, index) ==
    LET id == GetNamespacedIdentifer(input, pos, index, "ExpectedVariable", "At") IN
    IF id.ok THEN Return(Ok("Variable", id.text), id.pos) ELSE Return(id.err, pos - 1)

ParseVariable(input, pos, index) ==
    LET id == GetNamespacedIdentifer(input, pos, index, "ExpectedVariable", "At") IN
    IF id.ok THEN Return(Ok("Variable", id.text), id.pos) ELSE Return(id.err, id.pos)

-----------------------------------------------------------------------------
(* The parsers.  A frame is one Parser: its input with the cursor, output  *)
(* and components; pending is the node whose body this parser was built    *)
(* for by get_children! (none for a parser built by an entry point).       *)

NewParser(lexs, mode, pending) ==
    [input |-> lexs, pos |-> 0, output |-> <<>>, components |-> {}, mode |-> mode,
     pending |-> pending]

Top == stack[Len(stack)]

NoResult == [ok |-> FALSE, tag |-> "None", arg |-> 0]

\* A push that keeps the nodes and drops the errors.
PushOnlyNodes(parser, res) ==
    IF parser.mode = "new" /\ res.ok THEN [parser EXCEPT !.output = Append(@, res)] ELSE parser

\* Parser::push; component_pass drops the result instead (`let _ =`).
Push(parser, res) ==
    IF parser.mode = "new" THEN [parser EXCEPT !.output = Append(@, res)] ELSE parser

\* add_children, then what the owner of the body does after get_children!:
\* parse_element returns the element, parse_component registers the component.
Resume(parent, child) ==
    LET node == [child.pending.value EXCEPT !.children = @ \o child.output] IN
    IF child.pending.owner = "element"
    THEN Push(parent, Ok("Html", node))
    ELSE Push([parent EXCEPT !.components = RegistryInsert(@, node)], Text(<<>>))

Completed(child) ==
    LET node == [child.pending.value EXCEPT !.children = @ \o child.output] IN
    IF child.pending.owner = "element" THEN Ok("Html", node) ELSE Text(<<>>)

\* The loop of Parser::new broke on Eof with the cursor at pos.
Break(pos) ==
    LET n == Len(stack)
        child == [Top EXCEPT !.pos = pos] IN
    IF n > 1
    THEN /\ stack' = [SubSeq(stack, 1, n - 1) EXCEPT ![n - 1] = Resume(stack[n - 1], child)]
         /\ done' = done
         /\ dispatch' = [level |-> n, from |-> Top.pos, to |-> pos, res |-> Eof,
                         scan |-> NoScan, completed |-> Completed(child),
                         size |-> Len(Top.input)]
    ELSE /\ stack' = [stack EXCEPT ![n] = child]
         /\ done' = TRUE
         /\ dispatch' = [level |-> n, from |-> Top.pos, to |-> pos, res |-> Eof,
                         scan |-> NoScan, completed |-> NoResult, size |-> Len(Top.input)]

\* One turn of a driver loop, given what the parse routine did.
Drive(o) ==
    LET n == Len(stack) IN
    /\ UNCHANGED <<lexemes, harvested>>
    /\ IF o.kind = "recurse"
       THEN /\ stack' = Append([stack EXCEPT ![n].pos = o.pos],
                               NewParser(o.children, "new", o.node))
            /\ done' = done
            /\ dispatch' = [level |-> n, from |-> Top.pos, to |-> o.pos, res |-> NoResult,
                            scan |-> o.scan, completed |-> NoResult, size |-> Len(Top.input)]
       ELSE IF o.res = Eof
            THEN Break(o.pos)
            ELSE /\ stack' = [stack EXCEPT ![n] =
                                 Push([Top EXCEPT
                                          !.pos = o.pos,
                                          !.components =
                                              IF o.insert THEN RegistryInsert(@, o.node.value)
                                                          ELSE @],
                                      o.res)]
                 /\ done' = done
                 /\ dispatch' = [level |-> n, from |-> Top.pos, to |-> o.pos, res |-> o.res,
                                 scan |-> o.scan, completed |-> NoResult,
                                 size |-> Len(Top.input)]

Running(mode) == ~done /\ Top.mode = mode

NextIs(operator) == PeekIs(Top.input, Top.pos, operator)

-----------------------------------------------------------------------------
(* Parser::parse_token, one action per arm, run by the loop of Parser::new *)

TakeWord ==
    /\ Running("new") /\ HasNext(Top.input, Top.pos) /\ IsWord(Peek(Top.input, Top.pos))
    /\ Drive(ParseText(Top.input, Top.pos + 1, Peek(Top.input, Top.pos).text))

TakeAt ==
    /\ Running("new") /\ NextIs("At")
    /\ Drive(ParseVariable(Top.input, Top.pos + 1, Peek(Top.input, Top.pos).index))

TakeForwardSlash ==
    /\ Running("new") /\ NextIs("ForwardSlash")
    /\ Drive(ParseElement(Top.input, Top.pos + 1, Peek(Top.input, Top.pos).index))

TakeBackSlash ==
    /\ Running("new") /\ NextIs("BackSlash")
    /\ Drive(ParseEscaped(Top.input, Top.pos + 1))

TakeAmpersand ==
    /\ Running("new") /\ NextIs("Ampersand")
    /\ Drive(ParseComponent(Top.input, Top.pos + 1, TRUE, Peek(Top.input, Top.pos).index))

TakeDollar ==
    /\ Running("new") /\ NextIs("Dollar")
    /\ Drive(ParseFunction(Top.input, Top.pos + 1, Peek(Top.input, Top.pos).index))

TakeOperator ==
    /\ Running("new") /\ HasNext(Top.input, Top.pos)
    /\ Peek(Top.input, Top.pos).lex = "Symbol"
    /\ Peek(Top.input, Top.pos).op \notin
           {"At", "ForwardSlash", "BackSlash", "Ampersand", "Dollar"}
    /\ Drive(Return(Text(OperatorToString(Peek(Top.input, Top.pos).op)), Top.pos + 1))

TakeNone ==
    /\ Running("new") /\ ~HasNext(Top.input, Top.pos)
    /\ Drive(Return(Eof, Top.pos))

-----------------------------------------------------------------------------
(* Parser::component_pass, one action per arm of its loop                  *)

PassAmpersand ==
    /\ Running("pass") /\ NextIs("Ampersand")
    /\ Drive(ParseComponent(Top.input, Top.pos + 1, TRUE, Peek(Top.input, Top.pos).index))

PassSkip ==
    /\ Running("pass") /\ HasNext(Top.input, Top.pos) /\ ~NextIs("Ampersand")
    /\ UNCHANGED <<lexemes, harvested, done>>
    /\ stack' = [stack EXCEPT ![Len(stack)].pos = @ + 1]
    /\ dispatch' = [level |-> Len(stack), from |-> Top.pos, to |-> Top.pos + 1,
                    res |-> NoResult, scan |-> NoScan, completed |-> NoResult,
                    size |-> Len(Top.input)]

\* component_pass returns parser.components; Parser::new(lexemes) starts.
PassNone ==
    /\ Running("pass") /\ ~HasNext(Top.input, Top.pos)
    /\ UNCHANGED <<lexemes, done>>
    /\ harvested' = Top.components
    /\ stack' = <<NewParser(lexemes, "new", NoNode)>>
    /\ dispatch' = [level |-> 1, from |-> Top.pos, to |-> Top.pos, res |-> Eof,
                    scan |-> NoScan, completed |-> NoResult, size |-> Len(Top.input)]

-----------------------------------------------------------------------------
(* Inputs: what the lexer may hand over.  A shape is a lexeme without its  *)
(* index; Lex numbers the shapes of a sequence by position.                *)

MaxLen == 3      \* length of the inputs over the whole alphabet
MaxBody == 5     \* length of what follows the open brace of a body
MaxArgs == 2     \* length of a component's argument list
MaxTail == 3     \* length of what follows a component's argument list
MaxFn == 4       \* length of what follows the `(` of a function call

W(text) == [lex |-> "Word", op |-> "", text |-> text]

S(operator) == [lex |-> "Symbol", op |-> operator, text |-> <<>>]

Lex(shapes) ==
    [i \in 1..Len(shapes) |->
        IF shapes[i].lex = "Word" THEN Word(i, shapes[i].text)
                                  ELSE Symbol(i, shapes[i].op)]

Seqs(A, n) == UNION {[1..k -> A] : k \in 0..n}

Alphabet == {S(operator) : operator \in Operators} \cup {W(<<"a">>)}

AnyInputs == Seqs(Alphabet, MaxLen)

BodyInputs ==
    {<<S(sigil), W(<<"b">>), S("OpenBrace")>> \o body :
        sigil \in {"ForwardSlash", "Ampersand"},
        body \in Seqs({W(<<"a">>), S("OpenBrace"), S("CloseBrace"), S("Ampersand")}, MaxBody)}

ComponentInputs ==
    {<<S("Ampersand"), W(<<"c">>), S("OpenParam")>> \o args \o tail :
        args \in Seqs({S("At"), W(<<"a">>), S("Comma")}, MaxArgs),
        tail \in {<<>>} \cup
                 {<<S("CloseParam")>> \o t :
                     t \in Seqs({W(<<"a">>), S("OpenBrace"), S("CloseBrace"), S("OpenParam")},
                                MaxTail)}}

FunctionInputs ==
    {<<S("Dollar"), W(<<"f">>), S("OpenParam")>> \o entries :
        entries \in Seqs({W(<<"a">>), S("Equals"), S("At"), S("Ampersand"), S("Comma"),
                          S("CloseParam")}, MaxFn)}

\* /div(.card #main){Hello @user}
ElementScenario ==
    <<S("ForwardSlash"), W(<<"d", "i", "v">>), S("OpenParam"), S("Dot"),
      W(<<"c", "a", "r", "d", " ">>), S("Pound"), W(<<"m", "a", "i", "n">>), S("CloseParam"),
      S("OpenBrace"), W(<<"H", "e", "l", "l", "o", " ">>), S("At"), W(<<"u", "s", "e", "r">>),
      S("CloseBrace")>>

\* /div.card#main(){Hello @user}
ShorthandScenario ==
    <<S("ForwardSlash"), W(<<"d", "i", "v">>), S("Dot"), W(<<"c", "a", "r", "d">>),
      S("Pound"), W(<<"m", "a", "i", "n">>), S("OpenParam"), S("CloseParam"),
      S("OpenBrace"), W(<<"H", "e", "l", "l", "o", " ">>), S("At"), W(<<"u", "s", "e", "r">>),
      S("CloseBrace")>>

\* &greet(@name){Hi @name}
ComponentScenario ==
    <<S("Ampersand"), W(<<"g", "r", "e", "e", "t">>), S("OpenParam"), S("At"),
      W(<<"n", "a", "m", "e">>), S("CloseParam"), S("OpenBrace"), W(<<"H", "i", " ">>),
      S("At"), W(<<"n", "a", "m", "e">>), S("CloseBrace")>>

\* $fmt(x=@value, y=&widget)
FunctionScenario ==
    <<S("Dollar"), W(<<"f", "m", "t">>), S("OpenParam"), W(<<"x">>), S("Equals"), S("At"),
      W(<<"v", "a", "l", "u", "e">>), S("Comma"), W(<<"y">>), S("Equals"),
      S("Ampersand"), W(<<"w", "i", "d", "g", "e", "t">>), S("CloseParam")>>

\* /div(){Hello
UnterminatedScenario ==
    <<S("ForwardSlash"), W(<<"d", "i", "v">>), S("OpenParam"), S("CloseParam"),
      S("OpenBrace"), W(<<"H", "e", "l", "l", "o">>)>>

Scenarios ==
    {ElementScenario, ShorthandScenario, ComponentScenario, FunctionScenario,
     UnterminatedScenario}

Inputs ==
    {Lex(shapes) : shapes \in AnyInputs \cup BodyInputs \cup ComponentInputs
                               \cup FunctionInputs \cup Scenarios}

-----------------------------------------------------------------------------
(* component_pass(lexemes) has built its parser.                           *)

Init ==
    /\ lexemes \in Inputs
    /\ stack = <<NewParser(lexemes, "pass", NoNode)>>
    /\ harvested = {}
    /\ dispatch = [level |-> 1, from |-> 0, to |-> 0, res |-> NoResult, scan |-> NoScan,
                   completed |-> NoResult, size |-> Len(lexemes)]
    /\ done = FALSE

Next ==
    \/ PassAmpersand
    \/ PassSkip
    \/ PassNone
    \/ TakeWord
    \/ TakeAt
    \/ TakeForwardSlash
    \/ TakeBackSlash
    \/ TakeAmpersand
    \/ TakeDollar
    \/ TakeOperator
    \/ TakeNone

Spec == Init /\ [][Next]_vars

-----------------------------------------------------------------------------
(* Vocabulary of the properties, defined on the token sequence itself.     *)

\* The parser that made the last driver step.
Dispatcher == stack[dispatch.level]

\* The position of the close brace that matches the open brace at position
\* open of input, 0 when there is none.
RECURSIVE CloserFrom(_, _, _)
CloserFrom(input, i, depth) ==
    IF i > Len(input)
    THEN 0
    ELSE IF IsSymbol(input[i], "OpenBrace")
         THEN CloserFrom(input, i + 1, depth + 1)
         ELSE IF IsSymbol(input[i], "CloseBrace")
              THEN IF depth = 1 THEN i ELSE CloserFrom(input, i + 1, depth - 1)
              ELSE CloserFrom(input, i + 1, depth)

MatchingCloser(input, open) == CloserFrom(input, open + 1, 1)

\* The open braces after position open that are never closed.
ExcessOpeners(input, open) ==
    {i \in (open + 1)..Len(input) :
        IsSymbol(input[i], "OpenBrace") /\ MatchingCloser(input, i) = 0}

Last(positions) == CHOOSE i \in positions : \A j \in positions : j <= i

\* The position of the `)` that ends a list of `@word` entries and commas
\* starting at position i, 0 when the tokens are not such a list.
RECURSIVE ArgsEnd(_, _)
ArgsEnd(input, i) ==
    IF i > Len(input)
    THEN 0
    ELSE IF IsSymbol(input[i], "CloseParam")
         THEN i
         ELSE IF IsSymbol(input[i], "Comma")
              THEN ArgsEnd(input, i + 1)
              ELSE IF IsSymbol(input[i], "At") /\ i < Len(input) /\ IsWord(input[i + 1])
                   THEN ArgsEnd(input, i + 2)
                   ELSE 0

\* The texts of the words among input[i..j].
RECURSIVE WordsOf(_, _, _)
WordsOf(input, i, j) ==
    IF i > j
    THEN <<>>
    ELSE (IF IsWord(input[i]) THEN <<input[i].text>> ELSE <<>>) \o WordsOf(input, i + 1, j)

\* `&name(@a ...)` starts right after position p of input.
IsReference(input, p) ==
    /\ p + 3 <= Len(input)
    /\ IsSymbol(input[p + 1], "Ampersand")
    /\ IsWord(input[p + 2])
    /\ IsSymbol(input[p + 3], "OpenParam")
    /\ ArgsEnd(input, p + 4) # 0

\* The position of the last token of the dotted name starting at position i.
RECURSIVE NameEnd(_, _)
NameEnd(input, i) ==
    IF i > Len(input) \/ ~IsWord(input[i])
    THEN 0
    ELSE IF i < Len(input) /\ IsSymbol(input[i + 1], "Dot") THEN NameEnd(input, i + 2) ELSE i

\* input[i..j] is a run of commas and of entries `arg = @identifier` or
\* `arg = &identifier`.
RECURSIVE IsEntries(_, _, _)
IsEntries(input, i, j) ==
    IF i > j
    THEN TRUE
    ELSE IF IsSymbol(input[i], "Comma")
         THEN IsEntries(input, i + 1, j)
         ELSE /\ i + 3 <= j
              /\ IsWord(input[i])
              /\ IsSymbol(input[i + 1], "Equals")
              /\ IsSymbol(input[i + 2], "At") \/ IsSymbol(input[i + 2], "Ampersand")
              /\ IsWord(input[i + 3])
              /\ IsEntries(input, i + 4, j)

\* input[from + 1 .. to] starts `$name(` with entries up to position to.
IsCallPrefix(input, from, to) ==
    /\ from + 3 <= to
    /\ IsSymbol(input[from + 1], "Dollar")
    /\ NameEnd(input, from + 2) # 0
    /\ NameEnd(input, from + 2) < to
    /\ IsSymbol(input[NameEnd(input, from + 2) + 1], "OpenParam")

\* input[from + 1 .. to] is exactly `$name(` entries `)`.
IsExactCall(input, from, to) ==
    /\ IsCallPrefix(input, from, to)
    /\ NameEnd(input, from + 2) + 1 < to
    /\ IsSymbol(input[to], "CloseParam")
    /\ IsEntries(input, NameEnd(input, from + 2) + 2, to - 1)

\* Input ended inside the argument list: after `(`, an entry or a comma.
EndsInsideCall(input, from, to) ==
    /\ to = Len(input)
    /\ IsCallPrefix(input, from, to)
    /\ IsEntries(input, NameEnd(input, from + 2) + 2, to)

Names(components) == {c.name : c \in components}

\* What is left for the drivers to do: no step leaves it as it is.
RECURSIVE Remaining(_, _)
Remaining(parsers, k) ==
    IF k = 0
    THEN 0
    ELSE Len(parsers[k].input) - parsers[k].pos + 1 + Remaining(parsers, k - 1)

Measure(parsers, finished) ==
    Remaining(parsers, Len(parsers))
        + (IF finished THEN 0 ELSE 1)
        + (IF parsers[1].mode = "pass" THEN Len(lexemes) + 2 ELSE 0)

-----------------------------------------------------------------------------
\* One step seen from a reference `&name(@a ...)` and from the end of a
\* component body.
DefineOrCallStep ==
    LET n == Len(stack)
        f == stack[n]
        in == f.input
        p == f.pos
    IN  /\ (~done /\ IsReference(in, p)) =>
              LET q == ArgsEnd(in, p + 4)
                  component == [name |-> in[p + 2].text, args |-> WordsOf(in, p + 4, q),
                                children |-> <<>>]
              IN  IF q < Len(in) /\ IsSymbol(in[q + 1], "OpenBrace")
                                 /\ MatchingCloser(in, q + 1) # 0
                  THEN LET m == MatchingCloser(in, q + 1) IN
                       IF m = q + 2
                       THEN /\ Len(stack') = n
                            /\ dispatch'.res = Text(<<>>)
                            /\ component \in stack'[n].components
                            /\ stack'[n].pos = m
                       ELSE /\ Len(stack') = n + 1
                            /\ stack'[n].pos = m
                            /\ stack'[n].components = f.components
                            /\ stack'[n + 1].input = SubSeq(in, q + 2, m - 1)
                            /\ stack'[n + 1].pending =
                                   [owner |-> "component", value |-> component]
                  ELSE (q = Len(in) \/ ~IsSymbol(in[q + 1], "OpenBrace")) =>
                           /\ Len(stack') = n
                           /\ dispatch'.res =
                                  Ok("CompCall", [name |-> component.name,
                                                  values |-> component.args])
                           /\ stack'[n].components = f.components
                           /\ stack'[n].pos = q
        /\ (n > 1 /\ Len(stack') = n - 1 /\ f.pending.owner = "component") =>
              /\ dispatch'.completed = Text(<<>>)
              /\ [f.pending.value EXCEPT !.children = f.output] \in stack'[n - 1].components
              /\ stack'[n - 1].mode = "new" =>
                     stack'[n - 1].output = Append(stack[n - 1].output, Text(<<>>))

(* C1: define-vs-call disambiguation in parse_component.  For a reference  *)
(* `&name(@a ...)` whose `)` is followed by `{` and a closed body, the     *)
(* component is put in the registry of the parser that met it and the      *)
(* result is Text(""), once the body (if not empty) has been parsed; when  *)
(* `)` is followed by anything else or by the end of input, the result is  *)
(* the ComponentCall for name with the listed arguments and the registry   *)
(* is unchanged.                                                           *)
DefineOrCall == [][DefineOrCallStep]_vars

\* A definition with parameters and a closed body has just been registered.
DefineOrCallWitness ==
    /\ dispatch.completed = Text(<<>>)
    /\ \E c \in Top.components : c.args # <<>> /\ c.children # <<>>
    /\ \E open \in 2..Len(Top.input) :
           /\ IsSymbol(Top.input[open - 1], "CloseParam")
           /\ IsSymbol(Top.input[open], "OpenBrace")
           /\ MatchingCloser(Top.input, open) = Top.pos

\* A step that changes the registry of the parser that makes it.
RegisteredOnlyWithBodyStep ==
    LET n == Len(stack) IN
    (/\ Len(stack') = n
     /\ stack'[n].mode = stack[n].mode
     /\ stack'[n].components # stack[n].components) => dispatch'.scan.scanned

(* C2: a `&name` reference with no body is never registered: a dispatch    *)
(* that changes the registry of its parser at once has scanned a body.     *)
RegisteredOnlyWithBody == [][RegisteredOnlyWithBodyStep]_vars

(* C3: an element body opened with `{` and never closed before the end of  *)
(* input makes parse_element return unclosed-open-braces anchored at the   *)
(* position of the body's opening brace.                                   *)
UnterminatedElementBody ==
    (/\ dispatch.scan.scanned
     /\ IsSymbol(Dispatcher.input[dispatch.from + 1], "ForwardSlash")
     /\ MatchingCloser(Dispatcher.input, dispatch.scan.from) = 0)
        => dispatch.res =
               Err("UnclosedOpenBraces", Dispatcher.input[dispatch.scan.from].index)

(* C4: brace balance law.  When the open brace of a body has a matching    *)
(* close brace, the scan takes the tokens up to and including that closer  *)
(* and none after it, ends there with depth 0, and retains exactly the     *)
(* tokens strictly between the two, which is what the nested parser gets.  *)
BraceBalance ==
    dispatch.scan.scanned =>
        LET in == Dispatcher.input
            scan == dispatch.scan
            m == MatchingCloser(in, scan.from)
        IN  m # 0 =>
               /\ scan.closed
               /\ scan.depth = 0
               /\ scan.pos = m
               /\ Dispatcher.pos = m
               /\ scan.children = SubSeq(in, scan.from + 1, m - 1)
               /\ scan.children # <<>> =>
                      /\ Len(stack) = dispatch.level + 1
                      /\ Top.input = scan.children
                      /\ Top.pos = 0

\* A closed body with braces inside and tokens after its closer was scanned.
BraceBalanceWitness ==
    /\ dispatch.scan.scanned
    /\ dispatch.scan.closed
    /\ \E i \in 1..Len(dispatch.scan.children) :
           IsSymbol(dispatch.scan.children[i], "CloseBrace")
    /\ dispatch.scan.pos < Len(Dispatcher.input)

(* C5: when the scan reaches the end of input with depth > 0, the error is *)
(* unclosed-open-braces at the position of the last open brace of the      *)
(* scanned run that has no matching close brace.                           *)
AnchoredAtExcessOpener ==
    (/\ dispatch.scan.scanned
     /\ ~dispatch.scan.closed
     /\ dispatch.scan.depth > 0)
        => LET in == Dispatcher.input IN
           /\ ExcessOpeners(in, dispatch.scan.from) # {}
           /\ dispatch.res =
                  Err("UnclosedOpenBraces",
                      in[Last(ExcessOpeners(in, dispatch.scan.from))].index)

\* One turn of a driver loop, seen from its output and cursor.
LocalErrorsStep ==
    LET n == Len(stack)
        f == stack[n]
    IN  /\ (~done /\ f.mode = "new") =>
              /\ dispatch'.res \notin {Eof, NoResult} =>
                     /\ Len(stack') = n
                     /\ stack'[n].output = Append(f.output, dispatch'.res)
                     /\ stack'[n].pos = dispatch'.to
              /\ dispatch'.res = NoResult =>
                     /\ Len(stack') = n + 1
                     /\ stack'[n].output = f.output
              /\ dispatch'.res = Eof =>
                     IF n > 1
                     THEN /\ Len(stack') = n - 1
                          /\ dispatch'.completed # Eof
                          /\ stack'[n - 1].mode = "new" =>
                                 stack'[n - 1].output =
                                     Append(stack[n - 1].output, dispatch'.completed)
                     ELSE done' /\ stack'[1].output = f.output
              /\ (done' \/ Len(stack') < n) => dispatch'.res = Eof
        /\ \A k \in 1..Len(stack') : \A i \in 1..Len(stack'[k].output) :
               stack'[k].output[i].tag # "Eof"

(* C6: errors are local in the driver.  Every result of a dispatch other   *)
(* than the sentinel is appended to the output and the cursor stays where  *)
(* the dispatch left it; the loop stops only on the sentinel, which is     *)
(* never in an output.                                                     *)
LocalErrors == [][LocalErrorsStep]_vars

\* The parse went on after an error and ended on the sentinel of an escape
\* at the end of input.
LocalErrorsWitness ==
    /\ done
    /\ dispatch.to > dispatch.from
    /\ \E i \in 1..Len(stack[1].output) : ~stack[1].output[i].ok

(* C7: parse_function returns a FunctionCall only for the exact shape      *)
(* `$name(` entries `)`, and when the input ends inside the argument list  *)
(* the result is unexpected-end-of-input.                                  *)
FunctionCallExactShape ==
    (/\ dispatch.level <= Len(stack)
     /\ dispatch.to > dispatch.from
     /\ Dispatcher.mode = "new"
     /\ IsSymbol(Dispatcher.input[dispatch.from + 1], "Dollar"))
        => /\ dispatch.res.tag = "Function" =>
                  IsExactCall(Dispatcher.input, dispatch.from, dispatch.to)
           /\ EndsInsideCall(Dispatcher.input, dispatch.from, dispatch.to) =>
                  dispatch.res.tag = "UnexpectedEof"

\* The `&` at position i of the lexemes is the only one before that name.
OnlyReference(name, i) ==
    \A j \in 1..(Len(lexemes) - 1) :
        (IsSymbol(lexemes[j], "Ampersand") /\ lexemes[j + 1] = name) => j = i

\* The positions of the dispatcher's input that the step of the full parse
\* took as the inside of an element (attribute section and body), as the
\* body of a component, or as the escaped token.
Inside ==
    LET in == Dispatcher.input
        lead == in[dispatch.from + 1]
    IN  IF IsSymbol(lead, "ForwardSlash") \/ IsSymbol(lead, "BackSlash")
        THEN (dispatch.from + 2)..dispatch.to
        ELSE IF IsSymbol(lead, "Ampersand") /\ dispatch.scan.scanned
             THEN (dispatch.scan.from + 1)..dispatch.to
             ELSE {}

(* C8: no component in the registry returned by component_pass comes from  *)
(* an `&` definition that the full parse of the same lexemes finds inside  *)
(* an element or a component body, or after an escape.                     *)
PassOnlyTopLevel ==
    (/\ stack[1].mode = "new"
     /\ dispatch.level <= Len(stack)
     /\ Dispatcher.mode = "new"
     /\ dispatch.to > dispatch.from)
        => LET in == Dispatcher.input IN
           \A j \in Inside :
               (/\ j + 2 <= Len(in)
                /\ IsSymbol(in[j], "Ampersand")
                /\ IsWord(in[j + 1])
                /\ IsSymbol(in[j + 2], "OpenBrace")
                /\ MatchingCloser(in, j + 2) # 0
                /\ OnlyReference(in[j + 1], in[j].index))
                   => in[j + 1].text \notin Names(harvested)

(* C9, as stated: `/div(.card #main){Hello @user}` gives exactly one       *)
(* result, the Element div with class card, id main and the two children.  *)
ShorthandsInsideParentheses ==
    (done /\ lexemes = Lex(ElementScenario)) =>
        /\ Len(stack[1].output) = 1
        /\ stack[1].output[1].ok
        /\ stack[1].output[1].tag = "Html"
        /\ stack[1].output[1].arg.tag = <<"d", "i", "v">>
        /\ [i \in 1..Len(stack[1].output[1].arg.classes) |->
               Trim(stack[1].output[1].arg.classes[i])] = <<<<"c", "a", "r", "d">>>>
        /\ stack[1].output[1].arg.attributes =
               <<[key |-> <<"i", "d">>, value |-> <<"m", "a", "i", "n">>]>>
        /\ stack[1].output[1].arg.children =
               <<Text(<<"H", "e", "l", "l", "o", " ">>), Ok("Variable", <<"u", "s", "e", "r">>)>>

(* C9, amended: the shorthands are accepted between the tag and the        *)
(* parenthesised section, `/div.card#main(){Hello @user}` gives exactly    *)
(* that one Element; inside the parentheses the `.` is rejected as an      *)
(* invalid token in attributes, the first of several results.              *)
ShorthandsBeforeParentheses ==
    /\ (done /\ lexemes = Lex(ShorthandScenario)) =>
           stack[1].output =
               <<Ok("Html",
                    [tag |-> <<"d", "i", "v">>,
                     attributes |-> <<[key |-> <<"i", "d">>,
                                       value |-> <<"m", "a", "i", "n">>]>>,
                     classes |-> <<<<"c", "a", "r", "d">>>>,
                     children |-> <<Text(<<"H", "e", "l", "l", "o", " ">>),
                                    Ok("Variable", <<"u", "s", "e", "r">>)>>,
                     resources |-> <<>>])>>
    /\ (done /\ lexemes = Lex(ElementScenario)) =>
           /\ Len(stack[1].output) > 1
           /\ stack[1].output[1] = Err("InvalidTokenInAttributes", Symbol(4, "Dot"))

ShorthandsWitness == done /\ lexemes = Lex(ShorthandScenario)

\* One step, seen from the cursors and from what is left to do.
TerminationStep ==
    /\ dispatch'.to > dispatch'.from \/ dispatch'.res = Eof
    /\ dispatch'.res = Eof => dispatch'.to = dispatch'.size
    /\ \A k \in 1..Len(stack') :
           /\ stack'[k].pos \in 0..Len(stack'[k].input)
           /\ k > 1 => Len(stack'[k].input) < Len(stack'[k - 1].input)
           /\ (k <= Len(stack) /\ stack'[1].mode = stack[1].mode) =>
                  /\ stack'[k].input = stack[k].input
                  /\ stack'[k].pos >= stack[k].pos
    /\ done' => Len(stack') = 1 /\ stack'[1].pos = Len(lexemes)
    /\ Measure(stack', done') \in Nat
    /\ Measure(stack', done') < Measure(stack, done)

(* C10: the parse terminates.  Every driver step takes at least one token  *)
(* or yields the sentinel; cursors only move forward over an input that    *)
(* does not change; a nested parser gets fewer tokens than its parent; a   *)
(* driver yields the sentinel only with its cursor exhausted; and every    *)
(* step decreases a natural number, so no run goes on for ever.            *)
Termination == [][TerminationStep]_vars

\* A parser nested in a nested parser has come to its end.
TerminationWitness ==
    /\ dispatch.level >= 3
    /\ dispatch.res = Eof

====
